---- MODULE Spec2Model ----
(***************************************************************************)
(* The "With Bliss" backend (src/app.py): four tables (Package, Booking,   *)
(* ContactMessage, Gallery) behind a Flask JSON API.                       *)
(*                                                                         *)
(* One request is served at a time: Receive binds flask.request, one view  *)
(* function runs to its return (its whole session transaction is one step, *)
(* the storage engine serializes the writes), Teardown pops the request.   *)
(* JSON values are strings; None stands for Python None / JSON null and    *)
(* "" for the empty (falsy) string.                                        *)
(***************************************************************************)
EXTENDS Integers, Sequences, FiniteSets, TLC

\* ---------------------------------------------------------------- bounds
\* Highest identifier a table hands out before the model stops accepting
\* creates on it.
MaxId == 2
\* Rows the four tables hold together before the model stops accepting
\* creates.
MaxRows == 2

VARIABLES
    USE_MYSQL,   \* app.py:17, fixed at process start
    db,          \* the four tables: table name -> (id -> row)
    highest,     \* per table, the highest id ever assigned (MySQL's
                 \* AUTO_INCREMENT counter minus one; history under SQLite)
    request,     \* flask.request of the request being served
    resp,        \* the view function's return value
    created      \* history: id -> the values submitted by the POST that
                 \* created the package, until it is updated or deleted

vars == <<USE_MYSQL, db, highest, request, resp, created>>

\* ------------------------------------------------------- Python / JSON values
None == "None"

\* bool(v) of a JSON string or null.
Truthy(v) == v # None /\ v # ""

\* x if x is not None else y
Or_IsNotNone(x, y) == IF x # None THEN x ELSE y

\* x or y
Or(x, y) == IF Truthy(x) THEN x ELSE y

\* data.get(key)
Get(data, key) == IF key \in DOMAIN data THEN data[key] ELSE None

\* data.get(key, default)
GetDefault(data, key, default) == IF key \in DOMAIN data THEN data[key] ELSE default

Digit(d) ==
    CASE d = 0 -> "0" [] d = 1 -> "1" [] d = 2 -> "2" [] d = 3 -> "3"
      [] d = 4 -> "4" [] d = 5 -> "5" [] d = 6 -> "6" [] d = 7 -> "7"
      [] d = 8 -> "8" [] d = 9 -> "9"

RECURSIVE str(_)
\* str(n) of a non-negative int: its decimal digits.
str(n) == IF n < 10 THEN Digit(n) ELSE str(n \div 10) \o Digit(n % 10)

\* datetime.now().strftime('%Y-%m-%d %H:%M') with the clock t minutes past
\* midnight of a fixed day.
strftime(t) ==
    LET two(k) == IF k < 10 THEN "0" \o str(k) ELSE str(k)
    IN  "2025-01-01 " \o two((t \div 60) % 24) \o ":" \o two(t % 60)

Max(S) == IF S = {} THEN 0 ELSE CHOOSE m \in S : \A k \in S : k <= m

EmptyBody == [k \in {} |-> "None"]

RECURSIVE Bodies(_, _)
\* All JSON objects over the given keys: each key absent or bound to one of
\* its values.
Bodies(keys, values) ==
    IF keys = {} THEN {EmptyBody}
    ELSE LET k == CHOOSE x \in keys : TRUE
             rest == Bodies(keys \ {k}, values)
         IN  rest \cup { (k :> v) @@ b : v \in values[k], b \in rest }


\* ---------------------------------------------------------------- models
PACKAGES == "packages"
BOOKINGS == "bookings"
CONTACT == "contact"
GALLERY == "gallery"
Tables == {PACKAGES, BOOKINGS, CONTACT, GALLERY}

\* Booking.user_phone declared nullable.
NotNull_PhoneNullable ==
    [t \in Tables |->
        CASE t = PACKAGES -> {"name", "price"}
          [] t = BOOKINGS -> {"user_name"}
          [] t = CONTACT -> {"name", "email", "message"}
          [] t = GALLERY -> {"image_url"}]

\* Columns declared nullable=False.
NotNull ==
    [t \in Tables |->
        CASE t = PACKAGES -> {"name", "price"}
          [] t = BOOKINGS -> {"user_name", "user_phone"}
          [] t = CONTACT -> {"name", "email", "message"}
          [] t = GALLERY -> {"image_url"}]

\* Package built without its image keyword.
Package_DropsImage(data) ==
    [name |-> Get(data, "name"),
     price |-> Get(data, "price"),
     description |-> Get(data, "description"),
     image |-> None]

\* Package(name=..., price=..., description=..., image=...) as built by the
\* POST handler.
Package(data) ==
    [name |-> Get(data, "name"),
     price |-> Get(data, "price"),
     description |-> Get(data, "description"),
     image |-> Get(data, "image")]

Package_to_dict(id, p) ==
    [_id |-> str(id), name |-> p.name, price |-> p.price,
     description |-> p.description, image |-> p.image]

\* Booking built with the body's user_email.
Booking_WithEmail(data, now) ==
    [user_name |-> Or(Get(data, "customer_name"), Get(data, "user_name")),
     user_email |-> Get(data, "user_email"),
     user_phone |-> Or(Get(data, "contact"), Get(data, "user_phone")),
     event_date |-> Or(Get(data, "date"), Get(data, "event_date")),
     package_name |-> Get(data, "package"),
     submitted_at |-> strftime(now)]

\* Booking(user_name=..., user_phone=..., event_date=..., package_name=...) as
\* built by the POST handler; user_email is not passed and takes the column's
\* null, submitted_at takes the column default at the clock reading now.
Booking(data, now) ==
    [user_name |-> Or(Get(data, "customer_name"), Get(data, "user_name")),
     user_email |-> None,
     user_phone |-> Or(Get(data, "contact"), Get(data, "user_phone")),
     event_date |-> Or(Get(data, "date"), Get(data, "event_date")),
     package_name |-> Get(data, "package"),
     submitted_at |-> strftime(now)]

Booking_to_dict(id, b) ==
    [_id |-> str(id), customer_name |-> b.user_name, user_email |-> b.user_email,
     contact |-> b.user_phone, date |-> b.event_date, package |-> b.package_name,
     submitted_at |-> b.submitted_at]

ContactMessage(data, now) ==
    [name |-> Get(data, "name"),
     email |-> Get(data, "email"),
     message |-> Get(data, "message"),
     submitted_at |-> strftime(now)]

ContactMessage_to_dict(id, m) ==
    [_id |-> str(id), name |-> m.name, email |-> m.email, message |-> m.message,
     submitted_at |-> m.submitted_at]

Gallery(data) ==
    [title |-> Get(data, "title"),
     image_url |-> Get(data, "image_url"),
     category |-> Get(data, "category")]

Gallery_to_dict(id, g) ==
    [_id |-> str(id), title |-> g.title, image_url |-> g.image_url,
     category |-> g.category]

\* Readings of datetime.now(), in minutes past midnight.
Minutes == {0, 61}

\* ---------------------------------------------------------------- storage
\* An id taken from the number of rows.
NextId_Count(t) == Cardinality(DOMAIN db[t]) + 1

\* The id the engine gives the next inserted row of table t: SQLite's rowid
\* (INTEGER PRIMARY KEY without AUTOINCREMENT) is one more than the largest
\* rowid in the table; MySQL's AUTO_INCREMENT counter never goes back.
NextId(t) ==
    IF USE_MYSQL THEN highest[t] + 1 ELSE Max(DOMAIN db[t]) + 1

\* The INSERT or UPDATE of row into t passes the NOT NULL constraints.
NotNullOk(t, row) == \A c \in NotNull[t] : row[c] # None

\* db.session.add(row); db.session.commit()
session_add(d, t, id, row) == [d EXCEPT ![t] = (id :> row) @@ @]

\* assignments to a loaded row; db.session.commit()
session_update(d, t, id, row) == [d EXCEPT ![t] = [@ EXCEPT ![id] = row]]

\* A delete that is not filtered by id.
session_delete_all(d, t, id) == [d EXCEPT ![t] = [i \in {} |-> None]]

\* A delete that also removes the bookings naming the deleted package.
session_delete_cascade(d, t, id) ==
    [d EXCEPT ![t] = [i \in DOMAIN @ \ {id} |-> @[i]],
              !["bookings"] =
                  LET keep == { i \in DOMAIN @ : @[i].package_name # d[t][id].name }
                  IN  [i \in keep |-> @[i]]]

\* db.session.delete(row); db.session.commit()
session_delete(d, t, id) ==
    [d EXCEPT ![t] = [i \in DOMAIN @ \ {id} |-> @[i]]]

\* ---------------------------------------------------------------- HTTP
NoRequest == [method |-> "NONE", path |-> "", id |-> 0, json |-> EmptyBody]
NoResponse == [status |-> 0, body |-> None]

jsonify(body, status) == [status |-> status, body |-> body]

\* An exception escaping the view function (IntegrityError on commit): the
\* session is rolled back and Flask answers 500.
InternalServerError == [status |-> 500, body |-> "Internal Server Error"]

Idle == request.method = "NONE" /\ resp.status = 0
Serving(method, path) ==
    request.method = method /\ request.path = path /\ resp.status = 0

ITEM == "/api/packages/<int:id>"

Req(method, path, id, json) ==
    [method |-> method, path |-> path, id |-> id, json |-> json]

PackageKeys == {"name", "price", "description", "image"}

PackageValues ==
    [k \in PackageKeys |->
        CASE k = "name" -> {None, "a"}
          [] k = "price" -> {"1", "2"}
          [] k = "description" -> {None, "d"}
          [] k = "image" -> {"i"}]

\* The requests of the package routes.
PackageRequests ==
    LET bodies == Bodies(PackageKeys, PackageValues)
    IN  {Req("GET", "/api/packages", 0, EmptyBody)}
        \cup {Req("POST", "/api/packages", 0, b) : b \in bodies}
        \cup {Req("PUT", ITEM, i, b) : i \in 1..MaxId, b \in bodies}
        \cup {Req("DELETE", ITEM, i, EmptyBody) : i \in 1..MaxId}

BookingKeys ==
    {"customer_name", "user_name", "contact", "user_phone", "date", "event_date",
     "package", "user_email"}

BookingValues ==
    [k \in BookingKeys |->
        CASE k = "customer_name" -> {"", "A"}
          [] k = "user_name" -> {"B"}
          [] k = "contact" -> {"1"}
          [] k = "user_phone" -> {"2"}
          [] k = "date" -> {None}
          [] k = "event_date" -> {"E"}
          [] k = "package" -> {"a"}
          [] k = "user_email" -> {"e"}]

\* The requests of the booking route.
BookingRequests ==
    {Req("GET", "/api/bookings", 0, EmptyBody)}
    \cup {Req("POST", "/api/bookings", 0, b) : b \in Bodies(BookingKeys, BookingValues)}

\* The requests of all routes, over fewer body values.
AllRequests ==
    LET one(keys) == [k \in keys |-> {k}]
        pkg == Bodies({"name", "price", "description"},
                      [k \in {"name", "price", "description"} |->
                          IF k = "price" THEN {"1", "2"} ELSE {"a"}])
        bkg == Bodies({"customer_name", "user_phone", "contact", "package"},
                      [k \in {"customer_name", "user_phone", "contact", "package"} |->
                          IF k = "contact" THEN {""} ELSE {"a"}])
        msg == Bodies({"name", "email", "message"}, one({"name", "email", "message"}))
        img == Bodies({"title", "image_url", "category"},
                      one({"title", "image_url", "category"}))
    IN  {Req("GET", p, 0, EmptyBody) :
            p \in {"/api/packages", "/api/bookings", "/api/contact", "/api/gallery"}}
        \cup {Req("POST", "/api/packages", 0, b) : b \in pkg}
        \cup {Req("PUT", ITEM, i, b) : i \in 1..MaxId, b \in pkg}
        \cup {Req("DELETE", ITEM, i, EmptyBody) : i \in 1..MaxId}
        \cup {Req("POST", "/api/bookings", 0, b) : b \in bkg}
        \cup {Req("POST", "/api/contact", 0, b) : b \in msg}
        \cup {Req("POST", "/api/gallery", 0, b) : b \in img}

\* The table a POST to path inserts into.
TableOf(path) ==
    CASE path = "/api/packages" -> PACKAGES
      [] path = "/api/bookings" -> BOOKINGS
      [] path = "/api/contact" -> CONTACT
      [] path = "/api/gallery" -> GALLERY

TotalRows(d) ==
    Cardinality(DOMAIN d[PACKAGES]) + Cardinality(DOMAIN d[BOOKINGS])
    + Cardinality(DOMAIN d[CONTACT]) + Cardinality(DOMAIN d[GALLERY])

\* A request arrives. A create is accepted only while the table can still
\* hand out an id, and the database take a row, within the bounds.
Receive(S) ==
    /\ Idle
    /\ \E req \in S :
        /\ req.method = "POST" =>
              NextId(TableOf(req.path)) <= MaxId /\ TotalRows(db) < MaxRows
        /\ request' = req
    /\ UNCHANGED <<USE_MYSQL, db, highest, resp, created>>

\* The response is sent and the request context popped.
Teardown ==
    /\ resp.status # 0
    /\ request' = NoRequest
    /\ resp' = NoResponse
    /\ UNCHANGED <<USE_MYSQL, db, highest, created>>

\* The engine's counter after it handed out id.
Assigned(t, id) == [highest EXCEPT ![t] = Max({@, id})]

\* --------------------------------------------------------------- packages
\* [p.to_dict() for p in Package.query.all()], in no particular order.
ListPackages(d) == { Package_to_dict(i, d[PACKAGES][i]) : i \in DOMAIN d[PACKAGES] }

manage_packages_GET ==
    /\ Serving("GET", "/api/packages")
    /\ resp' = jsonify(ListPackages(db), 200)
    /\ UNCHANGED <<USE_MYSQL, db, highest, request, created>>

\* The response's id taken from the number of rows before the insert.
PackageAdded_Count(id) ==
    jsonify([message |-> "Package added",
             id |-> str(Cardinality(DOMAIN db["packages"]) + 1)], 201)

\* jsonify({"message": "Package added", "id": str(new_pkg.id)}), 201
PackageAdded(id) == jsonify([message |-> "Package added", id |-> str(id)], 201)

\* The values a POST body submits for the package fields, an absent field
\* counting as null: what the client expects to read back.
Submitted(data) ==
    [k \in PackageKeys |-> IF k \in DOMAIN data THEN data[k] ELSE None]

Forget(key) == [k \in DOMAIN created \ {key} |-> created[k]]

manage_packages_POST ==
    /\ Serving("POST", "/api/packages")
    /\ LET data == request.json
           new_pkg == Package(data)
           id == NextId(PACKAGES)
       IN  IF NotNullOk(PACKAGES, new_pkg)
           THEN /\ db' = session_add(db, PACKAGES, id, new_pkg)
                /\ highest' = Assigned(PACKAGES, id)
                /\ resp' = PackageAdded(id)
                /\ created' = (resp'.body.id :> Submitted(data)) @@ Forget(resp'.body.id)
           ELSE /\ resp' = InternalServerError
                /\ UNCHANGED <<db, highest, created>>
    /\ UNCHANGED <<USE_MYSQL, request>>

\* pkg = db.session.get(Package, id) finds a row.
Found(d, id) == id \in DOMAIN d[PACKAGES]

\* The not-found answer returned without its status code.
NotFound_Ok == jsonify([message |-> "Package not found"], 200)

\* jsonify({"message": "Package not found"}), 404
NotFound == jsonify([message |-> "Package not found"], 404)

\* The optional fields assigned with data.get(key), without the default.
PutPackage_NoDefault(pkg, data) ==
    [name |-> GetDefault(data, "name", pkg.name),
     price |-> GetDefault(data, "price", pkg.price),
     description |-> Get(data, "description"),
     image |-> Get(data, "image")]

\* The PUT branch's four assignments.
PutPackage(pkg, data) ==
    [name |-> GetDefault(data, "name", pkg.name),
     price |-> GetDefault(data, "price", pkg.price),
     description |-> GetDefault(data, "description", pkg.description),
     image |-> GetDefault(data, "image", pkg.image)]

update_package_PUT ==
    /\ Serving("PUT", ITEM)
    /\ LET id == request.id
           data == request.json
       IN  IF ~Found(db, id)
           THEN /\ resp' = NotFound
                /\ UNCHANGED <<db, created>>
           ELSE LET pkg == PutPackage(db[PACKAGES][id], data)
                IN  IF NotNullOk(PACKAGES, pkg)
                    THEN /\ db' = session_update(db, PACKAGES, id, pkg)
                         /\ created' = Forget(str(id))
                         /\ resp' = jsonify([message |-> "Package updated"], 200)
                    ELSE /\ resp' = InternalServerError
                         /\ UNCHANGED <<db, created>>
    /\ UNCHANGED <<USE_MYSQL, highest, request>>

update_package_DELETE ==
    /\ Serving("DELETE", ITEM)
    /\ LET id == request.id
       IN  IF ~Found(db, id)
           THEN /\ resp' = NotFound
                /\ UNCHANGED <<db, created>>
           ELSE /\ db' = session_delete(db, PACKAGES, id)
                /\ created' = Forget(str(id))
                /\ resp' = jsonify([message |-> "Package deleted"], 200)
    /\ UNCHANGED <<USE_MYSQL, highest, request>>

\* --------------------------------------------------------------- bookings
ListBookings(d) == { Booking_to_dict(i, d[BOOKINGS][i]) : i \in DOMAIN d[BOOKINGS] }

manage_bookings_GET ==
    /\ Serving("GET", "/api/bookings")
    /\ resp' = jsonify(ListBookings(db), 200)
    /\ UNCHANGED <<USE_MYSQL, db, highest, request, created>>

\* jsonify({"message": "Booking successful", "id": str(new_booking.id)}), 201
BookingSuccessful(id) ==
    jsonify([message |-> "Booking successful", id |-> str(id)], 201)

manage_bookings_POST ==
    /\ Serving("POST", "/api/bookings")
    /\ \E now \in Minutes :
        LET new_booking == Booking(request.json, now)
            id == NextId(BOOKINGS)
        IN  IF NotNullOk(BOOKINGS, new_booking)
            THEN /\ db' = session_add(db, BOOKINGS, id, new_booking)
                 /\ highest' = Assigned(BOOKINGS, id)
                 /\ resp' = BookingSuccessful(id)
            ELSE /\ resp' = InternalServerError
                 /\ UNCHANGED <<db, highest>>
    /\ UNCHANGED <<USE_MYSQL, request, created>>

\* ------------------------------------------------------- contact messages
ListMessages(d) ==
    { ContactMessage_to_dict(i, d[CONTACT][i]) : i \in DOMAIN d[CONTACT] }

contact_message_GET ==
    /\ Serving("GET", "/api/contact")
    /\ resp' = jsonify(ListMessages(db), 200)
    /\ UNCHANGED <<USE_MYSQL, db, highest, request, created>>

contact_message_POST ==
    /\ Serving("POST", "/api/contact")
    /\ \E now \in Minutes :
        LET new_msg == ContactMessage(request.json, now)
            id == NextId(CONTACT)
        IN  IF NotNullOk(CONTACT, new_msg)
            THEN /\ db' = session_add(db, CONTACT, id, new_msg)
                 /\ highest' = Assigned(CONTACT, id)
                 /\ resp' = jsonify([message |-> "Message received"], 200)
            ELSE /\ resp' = InternalServerError
                 /\ UNCHANGED <<db, highest>>
    /\ UNCHANGED <<USE_MYSQL, request, created>>

\* ---------------------------------------------------------------- gallery
ListImages(d) == { Gallery_to_dict(i, d[GALLERY][i]) : i \in DOMAIN d[GALLERY] }

manage_gallery_GET ==
    /\ Serving("GET", "/api/gallery")
    /\ resp' = jsonify(ListImages(db), 200)
    /\ UNCHANGED <<USE_MYSQL, db, highest, request, created>>

manage_gallery_POST ==
    /\ Serving("POST", "/api/gallery")
    /\ LET new_img == Gallery(request.json)
           id == NextId(GALLERY)
       IN  IF NotNullOk(GALLERY, new_img)
           THEN /\ db' = session_add(db, GALLERY, id, new_img)
                /\ highest' = Assigned(GALLERY, id)
                /\ resp' = jsonify([message |-> "Image added to gallery"], 200)
           ELSE /\ resp' = InternalServerError
                /\ UNCHANGED <<db, highest>>
    /\ UNCHANGED <<USE_MYSQL, request, created>>

\* ---------------------------------------------------------- specification
NoRows == [i \in {} |-> None]

\* db.create_all() on an absent database, under either engine.
Init ==
    /\ USE_MYSQL \in BOOLEAN
    /\ db = [t \in Tables |-> NoRows]
    /\ highest = [t \in Tables |-> 0]
    /\ request = NoRequest
    /\ resp = NoResponse
    /\ created = NoRows

NextPackages ==
    \/ Receive(PackageRequests)
    \/ manage_packages_GET
    \/ manage_packages_POST
    \/ update_package_PUT
    \/ update_package_DELETE
    \/ Teardown

NextBookings ==
    \/ Receive(BookingRequests)
    \/ manage_bookings_GET
    \/ manage_bookings_POST
    \/ Teardown

Next ==
    \/ Receive(AllRequests)
    \/ manage_packages_GET
    \/ manage_packages_POST
    \/ update_package_PUT
    \/ update_package_DELETE
    \/ manage_bookings_GET
    \/ manage_bookings_POST
    \/ contact_message_GET
    \/ contact_message_POST
    \/ manage_gallery_GET
    \/ manage_gallery_POST
    \/ Teardown

\* The package routes alone, over the full set of package bodies.
SpecPackages == Init /\ [][NextPackages]_vars

\* The booking route alone, over the full set of booking bodies.
SpecBookings == Init /\ [][NextBookings]_vars

\* All routes.
Spec == Init /\ [][Next]_vars

\* ================================================================ claims
\* The view function for (method, path) has returned and its response has
\* not yet been sent: request, resp and the tables it left are all in view.
Handled(method, path) ==
    request.method = method /\ request.path = path /\ resp.status # 0

\* The other tables of the database.
SameElsewhere(t) == \A u \in Tables \ {t} : db'[u] = db[u]

\* ---------------------------------------------------------------- C1
\* C1: after a successful POST /api/packages, and until that package is
\* updated or deleted, the list of packages (what GET /api/packages returns,
\* and what a GET just served did return) holds a row whose _id is the id
\* string the POST returned and whose name, price, description and image are
\* the submitted values, an absent field reading null.
C1_CreatedPackageIsListed ==
    \A k \in DOMAIN created :
        LET listed(rows) ==
                \E row \in rows :
                    /\ row._id = k
                    /\ \A f \in PackageKeys : row[f] = created[k][f]
        IN  /\ listed(ListPackages(db))
            /\ (Handled("GET", "/api/packages") /\ resp.status = 200)
                  => listed(resp.body)

\* A GET has returned two packages, one of them created without a description
\* and with an image and untouched since.
C1_Witness ==
    /\ Handled("GET", "/api/packages")
    /\ resp.status = 200
    /\ Cardinality(resp.body) = 2
    /\ \E k \in DOMAIN created :
        /\ created[k].description = None
        /\ created[k].image = "i"
        /\ \E row \in resp.body : row._id = k /\ row.image = "i"

\* ---------------------------------------------------------------- C2
\* C2: a PUT on an existing package changes no field that is absent from the
\* body, sets every field present in the body to the body's value (the PUT
\* succeeds unless the body gives null for name or price, and then changes
\* nothing), and leaves every other package row and every other table as it
\* was.
C2_PutOverwritesOnlyPresentFields ==
    [][ (Serving("PUT", ITEM) /\ request.id \in DOMAIN db[PACKAGES]) =>
          LET id == request.id
              data == request.json
              old == db[PACKAGES][id]
              nulls == \E f \in {"name", "price"} :
                          f \in DOMAIN data /\ data[f] = None
          IN  /\ DOMAIN db'[PACKAGES] = DOMAIN db[PACKAGES]
              /\ \A j \in DOMAIN db[PACKAGES] \ {id} :
                    db'[PACKAGES][j] = db[PACKAGES][j]
              /\ SameElsewhere(PACKAGES)
              /\ \A f \in PackageKeys \ DOMAIN data :
                    db'[PACKAGES][id][f] = old[f]
              /\ IF nulls
                 THEN resp'.status = 500 /\ db'[PACKAGES][id] = old
                 ELSE /\ resp'.status = 200
                      /\ \A f \in DOMAIN data : db'[PACKAGES][id][f] = data[f]
      ]_vars

\* A PUT whose body holds only price has succeeded on a package that keeps a
\* description and an image, beside another package.
C2_Witness ==
    /\ Handled("PUT", ITEM)
    /\ resp.status = 200
    /\ DOMAIN request.json = {"price"}
    /\ request.id \in DOMAIN db[PACKAGES]
    /\ db[PACKAGES][request.id].price = request.json.price
    /\ db[PACKAGES][request.id].description = "d"
    /\ db[PACKAGES][request.id].image = "i"
    /\ Cardinality(DOMAIN db[PACKAGES]) = 2

\* ---------------------------------------------------------------- C3
\* C3: a DELETE on an existing package answers 200, after it the list of
\* packages holds no row with that identifier, and every other package row
\* and every other table is as it was.
C3_DeleteRemovesOnlyThatRow ==
    [][ (Serving("DELETE", ITEM) /\ request.id \in DOMAIN db[PACKAGES]) =>
          LET id == request.id
          IN  /\ resp'.status = 200
              /\ \A row \in ListPackages(db') : row._id # str(id)
              /\ DOMAIN db'[PACKAGES] = DOMAIN db[PACKAGES] \ {id}
              /\ \A j \in DOMAIN db[PACKAGES] \ {id} :
                    db'[PACKAGES][j] = db[PACKAGES][j]
              /\ SameElsewhere(PACKAGES)
      ]_vars

\* A DELETE has succeeded and another package is still stored.
C3_Witness ==
    /\ Handled("DELETE", ITEM)
    /\ resp.status = 200
    /\ request.id \notin DOMAIN db[PACKAGES]
    /\ DOMAIN db[PACKAGES] # {}

\* ---------------------------------------------------------------- C4
\* C4: a PUT or DELETE whose identifier is the id of no stored package answers
\* 404 with a message and changes no table.
C4_UnknownIdIsNotFound ==
    [][ (/\ Serving("PUT", ITEM) \/ Serving("DELETE", ITEM)
         /\ request.id \notin DOMAIN db[PACKAGES]) =>
          /\ resp'.status = 404
          /\ resp'.body = [message |-> "Package not found"]
          /\ db' = db
          /\ highest' = highest
      ]_vars

\* A DELETE of an identifier that was handed out and deleted before has
\* answered 404 while a booking is stored.
C4_Witness ==
    /\ Handled("DELETE", ITEM)
    /\ resp.status = 404
    /\ request.id <= highest[PACKAGES]
    /\ request.id \notin DOMAIN db[PACKAGES]
    /\ db[BOOKINGS] # NoRows

\* ---------------------------------------------------------------- C5
\* The value the claim resolves a booking field to: the primary key's value
\* whenever that key is present, else the alternate key's value.
PrimaryIfPresent(data, primary, alternate) ==
    IF primary \in DOMAIN data THEN data[primary] ELSE Get(data, alternate)

\* The value resolved by truthiness: the primary key's value when that key is
\* present with a value that is neither null nor empty, else the alternate
\* key's value, null when that key is absent too.
PrimaryIfTruthy(data, primary, alternate) ==
    IF primary \in DOMAIN data /\ data[primary] # None /\ data[primary] # ""
    THEN data[primary]
    ELSE IF alternate \in DOMAIN data THEN data[alternate] ELSE None

\* The row a successful POST /api/bookings created is listed with the given
\* customer_name, contact and date, and with package taken from the body's
\* package.
BookingListedWith(name, phone, date) ==
    (Handled("POST", "/api/bookings") /\ resp.status = 201) =>
        \E row \in ListBookings(db) :
            /\ row._id = resp.body.id
            /\ row.customer_name = name
            /\ row.contact = phone
            /\ row.date = date
            /\ row.package = Get(request.json, "package")

\* C5 as claimed: each of name, phone and date is the primary key's value
\* whenever that key is present in the body.
C5_PrimaryWheneverPresent ==
    BookingListedWith(PrimaryIfPresent(request.json, "customer_name", "user_name"),
                      PrimaryIfPresent(request.json, "contact", "user_phone"),
                      PrimaryIfPresent(request.json, "date", "event_date"))

\* C5 as amended: each of name, phone and date is the primary key's value when
\* that key is present and its value is neither null nor the empty string, and
\* the alternate key's value (null if absent) otherwise; package is taken from
\* package alone.
C5_PrimaryWhenTruthy ==
    BookingListedWith(PrimaryIfTruthy(request.json, "customer_name", "user_name"),
                      PrimaryIfTruthy(request.json, "contact", "user_phone"),
                      PrimaryIfTruthy(request.json, "date", "event_date"))

\* A booking has been created from a body whose customer_name is empty and
\* whose date is null, beside alternate keys that are set.
C5_Witness ==
    /\ Handled("POST", "/api/bookings")
    /\ resp.status = 201
    /\ Get(request.json, "customer_name") = ""
    /\ "date" \in DOMAIN request.json
    /\ \E row \in ListBookings(db) :
        row._id = resp.body.id /\ row.customer_name = "B" /\ row.date = "E"

\* ---------------------------------------------------------------- C6
\* A response body without its message entry.
WithoutMessage(body) == [k \in DOMAIN body \ {"message"} |-> body[k]]

\* The list a GET on the collection at path returns.
ListOf(path, d) ==
    CASE path = "/api/packages" -> ListPackages(d)
      [] path = "/api/bookings" -> ListBookings(d)
      [] path = "/api/contact" -> ListMessages(d)
      [] path = "/api/gallery" -> ListImages(d)

Created(path) ==
    Handled("POST", path) /\ resp.status \in {200, 201}

\* C6 as claimed: after a create, the list holds a row equal, key for key, to
\* the POST's response body without its message entry.
C6_ListedRowEqualsPostBody ==
    \A path \in {"/api/packages", "/api/bookings"} :
        Created(path) =>
            \E row \in ListOf(path, db) : row = WithoutMessage(resp.body)

\* C6 as amended: the response of a Package or Booking create, its message
\* entry removed, holds the single key id, and the list holds exactly one row
\* whose _id is that id: the created row, carrying the submitted name (and,
\* for a package, price); the response of a ContactMessage or Gallery create
\* holds nothing but the message.
C6_PostIdNamesListedRow ==
    /\ \A path \in {"/api/packages", "/api/bookings"} :
        Created(path) =>
            /\ DOMAIN WithoutMessage(resp.body) = {"id"}
            /\ Cardinality({row \in ListOf(path, db) : row._id = resp.body.id}) = 1
            /\ \A row \in ListOf(path, db) :
                row._id = resp.body.id =>
                    IF path = "/api/packages"
                    THEN /\ row.name = request.json.name
                         /\ row.price = request.json.price
                    ELSE row.customer_name \in
                            { request.json[k] :
                                k \in DOMAIN request.json
                                      \cap {"customer_name", "user_name"} }
    /\ \A path \in {"/api/contact", "/api/gallery"} :
        Created(path) => DOMAIN WithoutMessage(resp.body) = {}

\* A package has been created after an earlier one was deleted, so that its
\* id is not the number of stored packages.
C6_Witness ==
    /\ Created("/api/packages")
    /\ resp.body.id = "2"
    /\ DOMAIN db[PACKAGES] = {2}

\* ---------------------------------------------------------------- C7
\* The ids a step adds to table t.
NewIds(t) == DOMAIN db'[t] \ DOMAIN db[t]

LacksRequired(path, data) ==
    LET lacks(keys) == keys \cap DOMAIN data = {}
    IN  CASE path = "/api/packages" -> lacks({"name"}) \/ lacks({"price"})
          [] path = "/api/bookings" ->
                lacks({"customer_name", "user_name"}) \/ lacks({"contact", "user_phone"})
          [] path = "/api/contact" ->
                lacks({"name"}) \/ lacks({"email"}) \/ lacks({"message"})
          [] path = "/api/gallery" -> lacks({"image_url"})
          [] OTHER -> FALSE

\* C8: a POST whose body lacks a required field answers with an error and no
\* id, adds no row and changes no table nor any id counter, and the request
\* ends like any other, leaving the service ready for the next one.
C8_MissingRequiredFieldWritesNothing ==
    [][ (/\ request.method = "POST"
         /\ resp.status = 0
         /\ LacksRequired(request.path, request.json)) =>
          /\ resp'.status = 500
          /\ resp'.body = "Internal Server Error"
          /\ db' = db
          /\ highest' = highest
          /\ request' = request
      ]_vars

\* A contact message without an email has been refused while the tables hold
\* rows.
C8_Witness ==
    /\ Handled("POST", "/api/contact")
    /\ resp.status = 500
    /\ "email" \notin DOMAIN request.json
    /\ "name" \in DOMAIN request.json
    /\ TotalRows(db) > 0

\* ---------------------------------------------------------------- C9
\* C9: no step removes a booking, a contact message or a gallery image, nor
\* changes any field of one, submitted_at included.
C9_AppendOnlyTables ==
    [][ \A t \in {BOOKINGS, CONTACT, GALLERY} :
          \A id \in DOMAIN db[t] :
              id \in DOMAIN db'[t] /\ db'[t][id] = db[t][id] ]_vars

\* The package a stored booking names has been deleted and the booking is
\* still there.
C9_Witness ==
    /\ Handled("DELETE", ITEM)
    /\ resp.status = 200
    /\ db[PACKAGES] = NoRows
    /\ \E id \in DOMAIN db[BOOKINGS] : db[BOOKINGS][id].package_name = "a"

\* --------------------------------------------------------------- C10
\* C10: every stored booking has a null user_email, and so has every booking a
\* GET /api/bookings returned, whatever the bodies held.
C10_UserEmailIsNull ==
    /\ \A id \in DOMAIN db[BOOKINGS] : db[BOOKINGS][id].user_email = None
    /\ \A row \in ListBookings(db) : row.user_email = None
    /\ (Handled("GET", "/api/bookings") /\ resp.status = 200)
          => \A row \in resp.body : row.user_email = None

\* A booking has been created from a body that supplied user_email.
C10_Witness ==
    /\ Handled("POST", "/api/bookings")
    /\ resp.status = 201
    /\ Get(request.json, "user_email") = "e"
    /\ \E row \in ListBookings(db) : row._id = resp.body.id
====
